---- MODULE Spec2Model ----
(***************************************************************************)
(* Model of distaff.py: the Distaff facade (construction with schema       *)
(* self-validation, native(), json()) and the recursive processing engine  *)
(* Distaff.process with the type classes it dispatches to.                 *)
(*                                                                         *)
(* Python values are tagged records [t |-> tag, ...payload fields]:        *)
(*   missing (the MISSING singleton), none, bool, int, str, date, list and *)
(*   dict (its items in insertion order).                                  *)
(* A schema is itself a Python dict, so schemas are dict values.           *)
(* A call's outcome is a record [exc, msg, val]: exc = "" when the call    *)
(* returns val, otherwise the class name of the exception that escapes.    *)
(***************************************************************************)
EXTENDS Integers, Sequences, FiniteSets, TLC

VARIABLES phase, doc, self_schema, self_data, self_errors, last, calls, fed

vars == <<phase, doc, self_schema, self_data, self_errors, last, calls, fed>>

-----------------------------------------------------------------------------
(* Python values *)

\* every value carries every field, so that any two values compare:
\* n holds an int, a bool (0, 1) or a date (yyyymmdd), s a str, c the elements
Val(t, n, s, c) == [t |-> t, n |-> n, s |-> s, c |-> c]

MISSING == Val("missing", 0, "", <<>>)

None == Val("none", 0, "", <<>>)

PyBool(b) == Val("bool", IF b THEN 1 ELSE 0, "", <<>>)

PyInt(n) == Val("int", n, "", <<>>)

PyStr(s) == Val("str", 0, s, <<>>)

DateOf(y, m, d) == Val("date", y * 10000 + m * 100 + d, "", <<>>)

ListOf(q) == Val("list", 0, "", q)

\* a dict holds its items in insertion order, each a key with its value
Item(key, val) == Val("item", 0, key, <<val>>)

DictOf(pairs) == Val("dict", 0, "", [i \in 1..Len(pairs) |-> Item(pairs[i][1], pairs[i][2])])

\* dict.items()
Pairs(d) == [i \in 1..Len(d.c) |-> <<d.c[i].s, d.c[i].c[1]>>]

dtype(type) == DictOf(<< <<"type", PyStr(type)>> >>)

\* dict display with further keyword arguments: dtype(type, **kwargs)
dtypekw(type, kwargs) == DictOf(<< <<"type", PyStr(type)>> >> \o kwargs)

Has(d, k) == \E i \in 1..Len(d.c) : d.c[i].s = k

Get(d, k) == d.c[CHOOSE i \in 1..Len(d.c) : d.c[i].s = k].c[1]

\* value.get(key, MISSING)
GetOrMissing(d, k) == IF Has(d, k) THEN Get(d, k) ELSE MISSING

\* schema.setdefault(key, val)
SetDefault(d, k, val) ==
    IF Has(d, k) THEN d ELSE Val("dict", 0, "", Append(d.c, Item(k, val)))

Keys(d) == {d.c[i].s : i \in 1..Len(d.c)}

\* bool(value): truth value testing
Truthy(x) ==
    CASE x.t = "none" -> FALSE
      [] x.t = "bool" -> x.n = 1
      [] x.t = "int" -> x.n # 0
      [] x.t = "str" -> x.s # ""
      [] x.t \in {"list", "dict"} -> Len(x.c) > 0
      [] OTHER -> TRUE

\* isinstance(value, int): bool is a subclass of int
IsNumber(x) == x.t \in {"int", "bool"}

Num(x) == x.n

\* == as used by `value not in choices`: True == 1, dicts compare without order
RECURSIVE PyEq(_, _)
PyEq(a, b) ==
    CASE IsNumber(a) /\ IsNumber(b) -> Num(a) = Num(b)
      [] a.t = "list" /\ b.t = "list" ->
            /\ Len(a.c) = Len(b.c)
            /\ \A i \in 1..Len(a.c) : PyEq(a.c[i], b.c[i])
      [] a.t = "dict" /\ b.t = "dict" ->
            /\ Keys(a) = Keys(b)
            /\ \A k \in Keys(a) : PyEq(Get(a, k), Get(b, k))
      [] OTHER -> a = b

-----------------------------------------------------------------------------
(* Outcomes of calls *)

Ok(val) == [exc |-> "", msg |-> "", val |-> val]

Raise(exc, msg, val) == [exc |-> exc, msg |-> msg, val |-> val]

MsgRequired == "a value is required"

MsgConvert == "can't convert"

MsgType == "got unexpected type"

MsgChoices == "is not one of"

-----------------------------------------------------------------------------
(* Built-in conversions of the Python library, on the strings of the model *)

\* int(value) for a str: the parsed number, or "ValueError"
IntLiteral(s) ==
    CASE s = "1" -> Ok(PyInt(1))
      [] s = "2" -> Ok(PyInt(2))
      [] s = "3" -> Ok(PyInt(3))
      [] s = "7" -> Ok(PyInt(7))
      [] s = "42" -> Ok(PyInt(42))
      [] s = " 42" -> Ok(PyInt(42))
      [] s = "007" -> Ok(PyInt(7))
      [] OTHER -> Raise("ValueError", "invalid literal for int()", MISSING)

\* str(value) for an int or a bool
StrOfNumber(x) ==
    CASE x.t = "bool" -> PyStr(IF x.n = 1 THEN "True" ELSE "False")
      [] x.n = 0 -> PyStr("0")
      [] x.n = 1 -> PyStr("1")
      [] x.n = 2 -> PyStr("2")
      [] x.n = 3 -> PyStr("3")
      [] x.n = 4 -> PyStr("4")
      [] x.n = 5 -> PyStr("5")
      [] x.n = 7 -> PyStr("7")
      [] x.n = 42 -> PyStr("42")
      [] OTHER -> PyStr("<int>")

FmtISO == "%Y-%m-%d"

FmtDMY == "%d/%m/%Y"

\* datetime.datetime.strptime(value, format).date(), or "ValueError"
Strptime(s, format) ==
    CASE format = FmtISO /\ s = "2016-01-01" -> Ok(DateOf(2016, 1, 1))
      [] format = FmtISO /\ s = "2000-01-01" -> Ok(DateOf(2000, 1, 1))
      [] format = FmtISO /\ s = "2016-1-1" -> Ok(DateOf(2016, 1, 1))
      [] format = FmtDMY /\ s = "01/01/2016" -> Ok(DateOf(2016, 1, 1))
      [] format = FmtDMY /\ s = "01/02/2000" -> Ok(DateOf(2000, 2, 1))
      [] OTHER -> Raise("ValueError", "does not match format", MISSING)

\* value.strftime('%Y-%m-%d')
Strftime(d) ==
    CASE d.n = 20160101 -> PyStr("2016-01-01")
      [] d.n = 20000101 -> PyStr("2000-01-01")
      [] d.n = 20000201 -> PyStr("2000-02-01")
      [] OTHER -> PyStr("<date>")

\* iterating over a str yields its characters (the strings of the model's inputs)
CharSeq(s) ==
    CASE s = "" -> <<>>
      [] s = "x" -> <<"x">>
      [] s = "1" -> <<"1">>
      [] s = "2" -> <<"2">>
      [] s = "7" -> <<"7">>
      [] s = "42" -> <<"4", "2">>
      [] s = " 42" -> <<" ", "4", "2">>
      [] s = "007" -> <<"0", "0", "7">>
      [] s = "true" -> <<"t", "r", "u", "e">>
      [] s = "yes" -> <<"y", "e", "s">>
      [] s = "2016-01-01" -> <<"2", "0", "1", "6", "-", "0", "1", "-", "0", "1">>
      [] s = "2016-1-1" -> <<"2", "0", "1", "6", "-", "1", "-", "1">>
      [] s = "01/01/2016" -> <<"0", "1", "/", "0", "1", "/", "2", "0", "1", "6">>
      [] s = "bar" -> <<"b", "a", "r">>

Chars(s) == [i \in 1..Len(CharSeq(s)) |-> PyStr(CharSeq(s)[i])]

-----------------------------------------------------------------------------
(* The type classes: Field and its subclasses *)

\* Distaff.types
types == {"schema", "boolean", "integer", "string", "date", "list", "dict", "any"}

\* native_type of each class, as the isinstance test it is used in
IsInstance(T, value) ==
    CASE T = "boolean" -> value.t = "bool"
      [] T = "integer" -> IsNumber(value)
      [] T = "string" -> value.t = "str"
      [] T = "date" -> value.t = "date"
      [] T = "list" -> value.t = "list"
      [] T \in {"dict", "schema"} -> value.t = "dict"
      [] OTHER -> FALSE

\* Field.isna, overridden by Any.isna
isna(T, value) ==
    IF T = "any" THEN value = MISSING ELSE value = None \/ value = MISSING

\* Field.native
FieldNative(T, value) ==
    IF IsInstance(T, value) THEN Ok(value) ELSE Raise("ValidationError", MsgConvert, value)

BooleanFalse == {"false", "0", "no", "off"}

BooleanTrue == {"true", "1", "yes", "on"}

\* Boolean.native without its last line, `return super().native(value)`: a value
\* that is not a str falls off the end of the method, which returns None
BooleanNativeStrOnly(value) ==
    IF value.t = "str"
    THEN IF value.s \in BooleanFalse THEN Ok(PyBool(FALSE))
         ELSE IF value.s \in BooleanTrue THEN Ok(PyBool(TRUE))
         ELSE Raise("ValidationError", MsgConvert, value)
    ELSE Ok(None)

\* Boolean.native
BooleanNative(value) ==
    IF value.t = "str"
    THEN IF value.s \in BooleanFalse THEN Ok(PyBool(FALSE))
         ELSE IF value.s \in BooleanTrue THEN Ok(PyBool(TRUE))
         ELSE Raise("ValidationError", MsgConvert, value)
    ELSE FieldNative("boolean", value)

\* Integer.native
IntegerNative(value) ==
    IF value.t = "str" THEN IntLiteral(value.s) ELSE FieldNative("integer", value)

\* String.native: the isinstance(value, int) branch also takes every bool
StringNative(value) ==
    IF IsNumber(value) THEN Ok(StrOfNumber(value)) ELSE FieldNative("string", value)

\* the loop of Date.native over the formats: the first format that parses wins
RECURSIVE DateTryFormats(_, _, _)
DateTryFormats(value, formats, i) ==
    IF i > Len(formats) THEN FieldNative("date", value)
    ELSE IF formats[i].t # "str"
         THEN Raise("TypeError", "strptime() argument 2 must be str", value)
         ELSE LET r == Strptime(value.s, formats[i].s)
              IN IF r.exc = "" THEN r ELSE DateTryFormats(value, formats, i + 1)

\* Date.native; self.schema.get('format', self.format)
DateNative(schema, value) ==
    IF value.t = "str"
    THEN LET format == IF Has(schema, "format") THEN Get(schema, "format")
                       ELSE ListOf(<<PyStr(FmtISO)>>)
         IN CASE format.t = "list" -> DateTryFormats(value, format.c, 1)
              [] format.t = "dict" ->
                    DateTryFormats(value, [i \in 1..Len(format.c) |-> PyStr(format.c[i].s)], 1)
              [] format.t = "str" ->
                    DateTryFormats(value, Chars(format.s), 1)
              [] OTHER -> Raise("TypeError", "object is not iterable", value)
    ELSE FieldNative("date", value)

\* dtype.native(data) by class
dtype_native(T, schema, value) ==
    CASE T = "boolean" -> BooleanNative(value)
      [] T = "integer" -> IntegerNative(value)
      [] T = "string" -> StringNative(value)
      [] T = "date" -> DateNative(schema, value)
      [] T = "any" -> Ok(value)
      [] OTHER -> FieldNative(T, value)

\* `value not in self.schema['choices']`
InChoices(value, choices) ==
    CASE choices.t = "list" -> \E i \in 1..Len(choices.c) : PyEq(value, choices.c[i])
      [] choices.t = "dict" -> \E i \in 1..Len(choices.c) : PyEq(value, PyStr(choices.c[i].s))
      [] OTHER -> FALSE

\* Field.validate
FieldValidate(T, schema, value) ==
    IF isna(T, value)
    THEN IF ~Has(schema, "required") THEN Raise("KeyError", "required", value)
         ELSE IF Truthy(Get(schema, "required"))
              THEN Raise("ValidationError", MsgRequired, value)
              ELSE Ok(value)
    ELSE IF ~IsInstance(T, value) THEN Raise("ValidationError", MsgType, value)
    ELSE IF ~Has(schema, "choices") THEN Raise("KeyError", "choices", value)
    ELSE LET choices == Get(schema, "choices")
         IN IF ~Truthy(choices) THEN Ok(value)
            ELSE IF choices.t \notin {"list", "dict"}
                 THEN Raise("TypeError", "argument is not iterable", value)
                 ELSE IF ~InChoices(value, choices)
                      THEN Raise("ValidationError", MsgChoices, value)
                      ELSE Ok(value)

\* Any.validate; self.schema.get('required', False)
AnyValidate(schema, value) ==
    IF isna("any", value) /\ Has(schema, "required") /\ Truthy(Get(schema, "required"))
    THEN Raise("ValidationError", MsgRequired, value)
    ELSE Ok(value)

\* dtype.validate(data) by class
dtype_validate(T, schema, value) ==
    IF T = "any" THEN AnyValidate(schema, value) ELSE FieldValidate(T, schema, value)

\* Date.json
DateJson(value) ==
    IF value.t = "date" THEN Ok(Strftime(value))
    ELSE Raise("AttributeError", "strftime", value)

\* dtype.json(data) by class: Field.json is the identity
dtype_json(T, value) == IF T = "date" THEN DateJson(value) ELSE Ok(value)

-----------------------------------------------------------------------------
(* The processing engine: Distaff.process and the traverse methods *)

\* the accumulator made by Distaff.__init__
NoErrors == [errors |-> <<>>, count |-> 0]

Done(exc, msg, val, errors) == [exc |-> exc, msg |-> msg, val |-> val, errors |-> errors]

\* ApplyDefault with the required check deciding first: a required node keeps
\* its absent value
ApplyDefaultUnlessRequired(schema, data) ==
    IF /\ Has(schema, "default") /\ data = MISSING
       /\ ~(Has(schema, "required") /\ Truthy(Get(schema, "required")))
    THEN Get(schema, "default") ELSE data

\* `if 'default' in schema and data is MISSING: data = schema['default']`
ApplyDefault(schema, data) ==
    IF Has(schema, "default") /\ data = MISSING THEN Get(schema, "default") ELSE data

\* `if 'fillna' in schema and dtype.isna(data): data = schema['fillna']`
ApplyFillna(T, schema, data) ==
    IF Has(schema, "fillna") /\ isna(T, data) THEN Get(schema, "fillna") ELSE data

\* what iterating over a value yields, or "TypeError" when it is not iterable
Iterate(x) ==
    CASE x.t = "list" -> Ok(x)
      [] x.t = "dict" -> Ok(ListOf([i \in 1..Len(x.c) |-> PyStr(x.c[i].s)]))
      [] x.t = "str" -> Ok(ListOf(Chars(x.s)))
      [] OTHER -> Raise("TypeError", "object is not iterable", x)

\* the schema handed on by Dict.process, and by Schema.process after its two
\* setdefault calls (which need a dict)
ChildSchema(T, schema) ==
    IF T # "schema" THEN Ok(schema)
    ELSE IF schema.t # "dict" THEN Raise("AttributeError", "setdefault", schema)
    ELSE Ok(SetDefault(SetDefault(schema, "choices", None), "required", PyBool(FALSE)))

\* the value process returns at the end: `if path: return data`, then by output
Returned(T, path, output, data) ==
    IF path # <<>> THEN Ok(data)
    ELSE IF output = "native" THEN Ok(data)
    ELSE IF output = "json" THEN dtype_json(T, data)
    ELSE Ok(None)

\* an outcome of a step of the try block, keeping the value `data` had before it
Keep(w, data) == IF w.exc # "" THEN Raise(w.exc, w.msg, data) ELSE w

WithErrors(w, errors) == Done(w.exc, w.msg, w.val, errors)

KeepDone(w, data) == IF w.exc # "" THEN Done(w.exc, w.msg, data, w.errors) ELSE w

RECURSIVE process(_, _, _, _, _, _, _, _, _)
RECURSIVE traverse(_, _, _, _, _, _, _, _)
RECURSIVE ListLoop(_, _, _, _, _, _, _, _, _)
RECURSIVE DictLoop(_, _, _, _, _, _, _, _, _, _)
RECURSIVE KeyLoop(_, _, _, _, _, _, _, _, _)

\* result.append(self.process(...)) and the next round of the loop
ListNext(items, value, i, result, path, output, cast, validate, r) ==
    IF r.exc # "" THEN r
    ELSE ListLoop(items, value, i + 1, Append(result, r.val),
                  path, output, cast, validate, r.errors)

\* the loop of List.traverse over zip(itertools.cycle(items), value)
ListLoop(items, value, i, result, path, output, cast, validate, errors) ==
    IF i > Len(value) \/ Len(items) = 0 THEN Done("", "", ListOf(result), errors)
    ELSE ListNext(items, value, i, result, path, output, cast, validate,
                  process(items[((i - 1) % Len(items)) + 1], value[i], output, cast,
                          validate, FALSE, Append(path, PyInt(i - 1)), "None", errors))

\* result[key] = self.process(...) and the next round of the loop
DictNext(T, items, value, i, result, path, output, cast, validate, r) ==
    IF r.exc # "" THEN r
    ELSE DictLoop(T, items, value, i + 1, Append(result, <<items[i][1], r.val>>),
                  path, output, cast, validate, r.errors)

\* Dict.process / Schema.process of one declared field
DictChild(T, items, value, i, path, output, cast, validate, errors, child) ==
    IF child.exc # "" THEN Done(child.exc, child.msg, value, errors)
    ELSE process(child.val, GetOrMissing(value, items[i][1]), output, cast, validate,
                 FALSE, Append(path, PyStr(items[i][1])), "None", errors)

\* the loop of Dict.traverse over self.schema['items'].items()
DictLoop(T, items, value, i, result, path, output, cast, validate, errors) ==
    IF i > Len(items) THEN Done("", "", DictOf(result), errors)
    ELSE IF value.t # "dict" THEN Done("AttributeError", "get", value, errors)
    ELSE DictNext(T, items, value, i, result, path, output, cast, validate,
                  DictChild(T, items, value, i, path, output, cast, validate, errors,
                            ChildSchema(T, items[i][2])))

KeyNext(T, value, i, result, path, output, cast, validate, r) ==
    IF r.exc # "" THEN r
    ELSE KeyLoop(T, value, i + 1, Append(result, <<value[i][1], r.val>>),
                 path, output, cast, validate, r.errors)

\* the loop of Dict.traverse over value.items() when the schema has no 'items':
\* every key is processed against dtype('key')
KeyLoop(T, value, i, result, path, output, cast, validate, errors) ==
    IF i > Len(value) THEN Done("", "", DictOf(result), errors)
    ELSE KeyNext(T, value, i, result, path, output, cast, validate,
                 process(ChildSchema(T, dtype("key")).val, value[i][2], output, cast,
                         validate, FALSE, Append(path, PyStr(value[i][1])), "None",
                         errors))

\* List.traverse once self.schema['items'] and value are being iterated over
ListTraverse(items, elems, value, path, output, cast, validate, errors) ==
    IF items.exc # "" THEN Done(items.exc, items.msg, value, errors)
    ELSE IF elems.exc # "" THEN Done(elems.exc, elems.msg, value, errors)
    ELSE ListLoop(items.val.c, elems.val.c, 1, <<>>,
                  path, output, cast, validate, errors)

\* dtype.traverse(data, path, kwargs): Field.traverse, List.traverse, Dict.traverse
traverse(T, schema, value, path, output, cast, validate, errors) ==
    CASE T = "list" ->
            IF ~Has(schema, "items") THEN Done("KeyError", "items", value, errors)
            ELSE ListTraverse(Iterate(Get(schema, "items")), Iterate(value), value,
                              path, output, cast, validate, errors)
      [] T \in {"dict", "schema"} ->
            IF Has(schema, "items")
            THEN IF Get(schema, "items").t # "dict"
                 THEN Done("AttributeError", "items", value, errors)
                 ELSE DictLoop(T, Pairs(Get(schema, "items")), value, 1, <<>>,
                               path, output, cast, validate, errors)
            ELSE IF value.t # "dict" THEN Done("AttributeError", "items", value, errors)
                 ELSE KeyLoop(T, Pairs(value), 1, <<>>, path, output, cast, validate,
                              errors)
      [] OTHER -> Done("", "", value, errors)

\* `if cast and not isna: data = dtype.native(data)`
TryCast(T, schema, data, na, cast) ==
    IF cast /\ ~na THEN Keep(dtype_native(T, schema, data), data) ELSE Ok(data)

\* `if validate: dtype.validate(data)`, c being the outcome of the step before
TryValidate(T, schema, validate, c) ==
    IF c.exc # "" \/ ~validate THEN c ELSE Keep(dtype_validate(T, schema, c.val), c.val)

\* `if not isna: data = dtype.traverse(data, path, {..., 'fail': False})`
TryTraverse(T, schema, na, path, output, cast, validate, selferrors, v) ==
    IF v.exc # "" \/ na THEN WithErrors(v, selferrors)
    ELSE KeepDone(traverse(T, schema, v.val, path, output, cast, validate, selferrors),
                  v.val)

\* `except ValidationError as e: dtype.errors['errors'].append(str(e));
\*  self.errors['count'] += 1`, dtype.errors being the `errors` argument
Except(errors, t) ==
    IF t.exc # "ValidationError" THEN t
    ELSE IF errors = "None"
         THEN Done("TypeError", "'NoneType' object is not subscriptable", t.val, t.errors)
         ELSE Done("", "", t.val, [errors |-> Append(t.errors.errors, t.msg),
                                   count |-> t.errors.count + 1])

\* the end of process: the raise under `fail` at the root, or the return
Finish(T, output, fail, path, h) ==
    IF h.exc # "" THEN h
    ELSE IF path = <<>> /\ h.errors.count # 0 /\ fail
         THEN Done("ValidationError", "", h.val, h.errors)
         ELSE WithErrors(Returned(T, path, output, h.val), h.errors)

\* process from `isna = dtype.isna(data)` on, data being the filled value
Typed(T, schema, data, output, cast, validate, fail, path, errors, selferrors) ==
    Finish(T, output, fail, path,
        Except(errors,
            TryTraverse(T, schema, isna(T, data), path, output, cast, validate, selferrors,
                TryValidate(T, schema, validate,
                    TryCast(T, schema, data, isna(T, data), cast)))))

\* Distaff.process; `errors` is the argument of that name: "self" for the
\* instance's accumulator, "None" for the default; selferrors is self.errors
process(schema, data, output, cast, validate, fail, path, errors, selferrors) ==
    IF schema.t # "dict" THEN Done("TypeError", "schema['type']", data, selferrors)
    ELSE IF ~Has(schema, "type") THEN Done("KeyError", "type", data, selferrors)
    ELSE IF Get(schema, "type").t \in {"list", "dict"}
         THEN Done("TypeError", "unhashable type", data, selferrors)
    ELSE IF ~(Get(schema, "type").t = "str" /\ Get(schema, "type").s \in types)
         THEN Done("KeyError", "types", data, selferrors)
    ELSE Typed(Get(schema, "type").s, schema,
               ApplyFillna(Get(schema, "type").s, schema, ApplyDefault(schema, data)),
               output, cast, validate, fail, path, errors, selferrors)

-----------------------------------------------------------------------------
(* The Distaff facade *)

\* Distaff._schema: the schema that schema documents are processed against
_schema ==
    dtypekw("schema",
        << <<"required", PyBool(TRUE)>>,
           <<"choices", None>>,
           <<"items", DictOf(
               << <<"type", dtypekw("string", << <<"required", PyBool(TRUE)>> >>)>>,
                  <<"required", dtypekw("boolean", << <<"default", PyBool(FALSE)>> >>)>>,
                  <<"choices", dtypekw("list", << <<"items", dtype("any")>>,
                                                  <<"default", None>> >>)>>,
                  <<"default", dtype("any")>> >>)>> >>)

\* the errors a call appended to the accumulator
Recorded(before, after) == SubSeq(after.errors, Len(before.errors) + 1, Len(after.errors))

\* the record of a call: its arguments (schema and data for a direct call of
\* process only: native and json pass self.schema and self.data) and its outcome
Call(op, schema, data, output, cast, validate, fail, errors, before, r) ==
    [op |-> op, schema |-> schema, data |-> data, output |-> output, cast |-> cast,
     validate |-> validate, fail |-> fail, errors |-> errors,
     exc |-> r.exc, val |-> r.val, recorded |-> Recorded(before, r.errors)]

\* Distaff.__init__(schema, data): the fields of the new instance; when the
\* schema pass raises, construction raises and no instance exists ("failed")
NewInstance(schema, data) ==
    LET r == process(_schema, schema, "native", TRUE, TRUE, TRUE, <<>>, "self", NoErrors)
    IN [phase |-> IF r.exc = "" THEN "ready" ELSE "failed",
        self_schema |-> IF r.exc = "" THEN r.val ELSE MISSING,
        self_errors |-> r.errors,
        last |-> Call("init", MISSING, MISSING, "native", TRUE, TRUE, TRUE, "self",
                      NoErrors, r)]

-----------------------------------------------------------------------------
(* Inputs *)

MaxCalls == 2

MaxLen == 3

D2016 == DateOf(2016, 1, 1)

D2000 == DateOf(2000, 1, 1)

DocTypes == {"boolean", "integer", "string", "date", "list", "dict", "any", "bogus"}

DocRequired == {<<>>, << <<"required", PyBool(TRUE)>> >>}

Defaults ==
    {None, PyInt(5), PyStr("7"), PyStr("x"), PyBool(TRUE), D2016, ListOf(<<>>),
     DictOf(<<>>)}

DocDefault == {<<>>} \cup {<< <<"default", d>> >> : d \in Defaults}

\* schema documents given to Distaff(schema, data)
Docs ==
    {dtypekw(type, r \o d) : type \in DocTypes, r \in DocRequired, d \in DocDefault}
    \cup {dtypekw("integer", << <<"bogus", PyInt(1)>> >>),
          dtypekw("list", << <<"items", dtype("integer")>> >>),
          dtypekw("dict", << <<"items", DictOf(<< <<"a", dtype("integer")>> >>)>> >>),
          dtypekw("integer", << <<"choices", ListOf(<<PyInt(1), PyInt(2)>>)>> >>),
          dtypekw("integer", << <<"choices", ListOf(<<>>)>> >>),
          DictOf(<< <<"required", PyBool(TRUE)>> >>),
          None}

\* data given to Distaff(schema, data)
DataValues ==
    {MISSING, None, PyBool(TRUE), PyInt(1), PyStr("42"), PyStr("x"), PyStr("true"),
     D2016, PyStr("2016-01-01"), ListOf(<<>>), ListOf(<<PyInt(1)>>), DictOf(<<>>),
     DictOf(<< <<"foo", PyStr("bar")>> >>)}

-----------------------------------------------------------------------------
(* The facade as a state machine: one Distaff instance and the calls on it *)

Init ==
    \E schema \in Docs, data \in DataValues :
        LET n == NewInstance(schema, data)
        IN /\ phase = n.phase
           /\ doc = schema
           /\ self_schema = n.self_schema
           /\ self_data = data
           /\ self_errors = n.self_errors
           /\ last = n.last
           /\ calls = 0
           /\ fed = FALSE

\* self.process(self.schema, self.data, output, cast, validate, fail,
\* errors=self.errors)
FacadeCall(output, cast, validate, fail) ==
    process(self_schema, self_data, output, cast, validate, fail, <<>>, "self",
            self_errors)

\* Distaff.native(cast=True, validate=True, fail=False); self.errors keeps what
\* the call appended
Native ==
    /\ phase = "ready"
    /\ calls < MaxCalls
    /\ \E cast \in BOOLEAN, validate \in BOOLEAN, fail \in BOOLEAN :
        /\ self_errors' = FacadeCall("native", cast, validate, fail).errors
        /\ last' = Call("native", MISSING, MISSING, "native", cast, validate, fail,
                        "self", self_errors, FacadeCall("native", cast, validate, fail))
        /\ calls' = calls + 1
        /\ UNCHANGED <<phase, doc, self_schema, self_data, fed>>

\* Distaff.json(cast=False, validate=False, fail=True)
Json ==
    /\ phase = "ready"
    /\ calls < MaxCalls
    /\ \E cast \in BOOLEAN, validate \in BOOLEAN, fail \in BOOLEAN :
        /\ self_errors' = FacadeCall("json", cast, validate, fail).errors
        /\ last' = Call("json", MISSING, MISSING, "json", cast, validate, fail,
                        "self", self_errors, FacadeCall("json", cast, validate, fail))
        /\ calls' = calls + 1
        /\ UNCHANGED <<phase, doc, self_schema, self_data, fed>>

DefaultNative(c) == c.op = "native" /\ c.cast /\ c.validate /\ ~c.fail

Clean(c) == c.exc = "" /\ c.recorded = <<>>

\* Distaff(schema, v).native() for the v that a clean native() just returned:
\* a new instance of the same schema document with v as its data
Refeed ==
    /\ phase = "ready"
    /\ DefaultNative(last)
    /\ Clean(last)
    /\ LET n == NewInstance(doc, last.val)
       IN /\ phase' = n.phase
          /\ self_schema' = n.self_schema
          /\ self_data' = last.val
          /\ self_errors' = n.self_errors
          /\ last' = n.last
    /\ calls' = 0
    /\ fed' = TRUE
    /\ UNCHANGED doc

Next == Native \/ Json \/ Refeed

Spec == Init /\ [][Next]_vars

-----------------------------------------------------------------------------
(* The engine called directly: process(schema, data, ...) on a new instance *)

\* a schema with the keys that Schema.process sets by default
Full(type, kwargs) ==
    dtypekw(type, << <<"required", PyBool(FALSE)>>, <<"choices", None>> >> \o kwargs)

Required(type) == dtypekw(type, << <<"required", PyBool(TRUE)>>, <<"choices", None>> >>)

IntegerItems == ListOf(<<Full("integer", <<>>)>>)

ScalarSchemas ==
    {Full("integer", <<>>), Full("string", <<>>), Full("date", <<>>), Full("any", <<>>),
     Full("boolean", <<>>), Required("integer"), Required("any"), dtype("integer"),
     Full("integer", << <<"default", PyInt(5)>> >>),
     Full("integer", << <<"fillna", PyStr("7")>> >>),
     Full("integer", << <<"choices", ListOf(<<PyInt(1), PyInt(2)>>)>> >>),
     Full("date", << <<"format", ListOf(<<PyStr(FmtDMY), PyStr(FmtISO)>>)>> >>)}

ListSchemas ==
    {Full("list", << <<"items", IntegerItems>> >>),
     Full("list", << <<"items", ListOf(<<Full("integer", <<>>), Full("string", <<>>)>>)>> >>),
     Full("list", << <<"items", ListOf(<<Full("date", <<>>), Full("any", <<>>),
                                         Required("integer")>>)>> >>),
     Full("list", << <<"items", Full("integer", <<>>)>> >>),
     Full("list", << <<"items", ListOf(<<>>)>> >>),
     Full("list", <<>>)}

DictSchemas ==
    {Full("dict", << <<"items", DictOf(<< <<"a", Full("integer", <<>>)>>,
                                          <<"b", Full("integer", <<>>)>> >>)>> >>),
     Full("dict", << <<"items", DictOf(<< <<"d", Full("date", <<>>)>>,
                                          <<"n", Required("integer")>> >>)>> >>),
     Full("dict", << <<"items", DictOf(<< <<"a", Required("string")>>,
                                          <<"b", Full("list", << <<"items", IntegerItems>> >>)>>
                                       >>)>> >>),
     Full("dict", << <<"items", DictOf(<< <<"a", Full("integer",
                                                      << <<"default", PyInt(3)>> >>)>> >>)>> >>),
     Full("dict", <<>>)}

EngineSchemas == ScalarSchemas \cup ListSchemas \cup DictSchemas

SeqsUpTo(S, n) == UNION {[1..k -> S] : k \in 0..n}

Elements == {PyInt(1), PyStr("2"), PyStr("x"), D2000}

ListData == {ListOf(q) : q \in SeqsUpTo(Elements, MaxLen)}

DictData ==
    {DictOf(<<>>),
     DictOf(<< <<"a", PyInt(1)>>, <<"b", PyStr("2")>> >>),
     DictOf(<< <<"b", PyInt(1)>>, <<"a", PyStr("2")>> >>),
     DictOf(<< <<"a", ListOf(<<>>)>>, <<"b", PyInt(1)>> >>),
     DictOf(<< <<"a", ListOf(<<>>)>>, <<"b", ListOf(<<>>)>> >>),
     DictOf(<< <<"a", PyInt(1)>>, <<"b", ListOf(<<>>)>> >>),
     DictOf(<< <<"a", PyInt(1)>>, <<"c", PyInt(1)>> >>),
     DictOf(<< <<"a", PyStr("x")>>, <<"b", ListOf(<<PyInt(1), PyStr("2")>>)>> >>),
     DictOf(<< <<"d", D2000>>, <<"n", PyInt(1)>> >>),
     DictOf(<< <<"d", PyStr("2016-01-01")>>, <<"n", PyStr("7")>> >>),
     DictOf(<< <<"d", D2000>> >>),
     DictOf(<< <<"foo", PyStr("bar")>> >>)}

EngineData ==
    {MISSING, None, PyBool(TRUE), PyInt(1), PyInt(3), PyStr("42"), PyStr("x"), D2016,
     PyStr("2016-01-01"), PyStr("01/01/2016")} \cup ListData \cup DictData

\* Distaff(dtype('any')): data defaults to None
InitEngine ==
    LET n == NewInstance(dtype("any"), None)
    IN /\ phase = n.phase
       /\ doc = dtype("any")
       /\ self_schema = n.self_schema
       /\ self_data = None
       /\ self_errors = n.self_errors
       /\ last = n.last
       /\ calls = 0
       /\ fed = FALSE

\* self.process(schema, data, output, cast, validate, fail, errors=...) called
\* once on the new instance, with the instance's accumulator or without
Process ==
    /\ phase = "ready"
    /\ calls = 0
    /\ \E schema \in EngineSchemas, data \in EngineData, output \in {"native", "json"},
          cast \in BOOLEAN, validate \in BOOLEAN, fail \in BOOLEAN,
          errors \in {"self", "None"} :
        /\ self_errors' = process(schema, data, output, cast, validate, fail, <<>>,
                                  errors, self_errors).errors
        /\ last' = Call("process", schema, data, output, cast, validate, fail, errors,
                        self_errors,
                        process(schema, data, output, cast, validate, fail, <<>>,
                                errors, self_errors))
        /\ calls' = calls + 1
        /\ UNCHANGED <<phase, doc, self_schema, self_data, fed>>

NextEngine == Process

SpecEngine == InitEngine /\ [][NextEngine]_vars

-----------------------------------------------------------------------------
(* Vocabulary of the properties *)

IsCall(c) == c.op \in {"native", "json", "process"}

\* the call ran with the defaults of native(): cast, validate, no fail, the
\* instance's accumulator, native output
WithDefaults(c) ==
    IsCall(c) /\ c.output = "native" /\ c.cast /\ c.validate /\ ~c.fail /\ c.errors = "self"

TypeOf(schema) ==
    IF schema.t = "dict" /\ Has(schema, "type") /\ Get(schema, "type").t = "str"
    THEN Get(schema, "type").s ELSE ""

DeclaresItems(schema, type) ==
    TypeOf(schema) = type /\ Has(schema, "items")

\* a node processed on its own, as the root of a pass with a new accumulator
Alone(schema, data) ==
    process(schema, data, "native", TRUE, TRUE, FALSE, <<>>, "self", NoErrors)

Failed(r) == r.exc = "" /\ r.errors.count > 0

Passed(r) == r.exc = "" /\ r.errors.count = 0

\* the accumulator as it was before the last call
Before ==
    [errors |-> SubSeq(self_errors.errors, 1,
                       Len(self_errors.errors) - Len(last.recorded)),
     count |-> self_errors.count - Len(last.recorded)]

-----------------------------------------------------------------------------
(* C1: dict traversal and the errors of its fields *)

\* the declared field number i of a dict schema, processed on its own
Field(schema, data, i) ==
    Alone(Pairs(Get(schema, "items"))[i][2],
          GetOrMissing(data, Pairs(Get(schema, "items"))[i][1]))

Fields(schema) == 1..Len(Pairs(Get(schema, "items")))

\* a dict schema with declared items meets a dict whose fields, each on its own,
\* either convert or fail with a recorded error
DictCase(c) ==
    /\ WithDefaults(c)
    /\ DeclaresItems(c.schema, "dict")
    /\ c.data.t = "dict"
    /\ \A i \in Fields(c.schema) : Field(c.schema, c.data, i).exc = ""

\* C1: processing a dict against a dict schema with declared items visits every
\* declared field and completes: one error is recorded for each field whose own
\* processing failed and for no other, and every field that did not fail is in
\* the returned dict with its converted value, also when sibling fields failed.
C1_DictReportsFailedFields ==
    DictCase(last) =>
        /\ last.exc = ""
        /\ Len(last.recorded) =
              Cardinality({i \in Fields(last.schema) :
                              Failed(Field(last.schema, last.data, i))})
        /\ \A i \in Fields(last.schema) :
              Passed(Field(last.schema, last.data, i)) =>
                  /\ Has(last.val, Pairs(Get(last.schema, "items"))[i][1])
                  /\ Get(last.val, Pairs(Get(last.schema, "items"))[i][1])
                        = Field(last.schema, last.data, i).val

-----------------------------------------------------------------------------
(* C2: native() with its defaults *)

\* the options that the schema of schemas and the type classes declare
CommonOptions == {"type", "required", "choices", "default"}

TypeOptions(type) ==
    CASE type = "boolean" -> {"false", "true"}
      [] type = "string" -> {"empty"}
      [] type = "date" -> {"format"}
      [] type \in {"list", "dict"} -> {"items"}
      [] OTHER -> {}

\* a schema document of a registered type with recognised options only
ValidDoc(schema) ==
    /\ TypeOf(schema) \in types
    /\ Keys(schema) \subseteq CommonOptions \cup TypeOptions(TypeOf(schema))

\* C2: on an instance whose schema was accepted at construction, native() with
\* its defaults (cast, validate, no fail) returns normally whatever the data is:
\* no exception of any kind escapes the call.
C2_NativeNeverRaises ==
    (phase = "ready" /\ ValidDoc(doc) /\ last.op = "native" /\ WithDefaults(last))
        => last.exc = ""

-----------------------------------------------------------------------------
(* C3: required nodes and absent values *)

\* required=true and neither default nor fillna declared
RequiredNode(schema) ==
    /\ schema.t = "dict"
    /\ TypeOf(schema) \in types
    /\ Has(schema, "required") /\ Truthy(Get(schema, "required"))
    /\ ~Has(schema, "default")
    /\ ~Has(schema, "fillna")

\* the declared fields of a dict schema that are required and absent from data
AbsentRequired(schema, data) ==
    {i \in Fields(schema) :
        /\ RequiredNode(Pairs(Get(schema, "items"))[i][2])
        /\ ~Has(data, Pairs(Get(schema, "items"))[i][1])}

-----------------------------------------------------------------------------
(* C4: defaults and absent values *)

DeclaresDefault == phase = "ready" /\ ValidDoc(doc) /\ Has(doc, "default")

ScalarTypes == {"boolean", "integer", "string", "date", "any"}

\* the declared default is a value of the node's type already: not null
\* (anything at all for 'any') and an instance of the native type
NativeDefault ==
    /\ TypeOf(doc) \in ScalarTypes
    /\ \/ TypeOf(doc) = "any"
       \/ Get(doc, "default") # None /\ IsInstance(TypeOf(doc), Get(doc, "default"))

WithDefaultAsData ==
    process(self_schema, Get(doc, "default"), last.output, last.cast, last.validate,
            last.fail, <<>>, "self", Before)

-----------------------------------------------------------------------------
(* C5: the accumulator of a call *)

\* the last call of the facade, made on a new accumulator
OnFreshAccumulator ==
    process(self_schema, self_data, last.output, last.cast, last.validate, last.fail,
            <<>>, "self", NoErrors)

\* C5: every native() or json() call works on a new accumulator: the errors it
\* reports and whether it raises under fail are what the same call gives on a
\* new accumulator, whatever earlier calls on the instance recorded.
C5_FreshAccumulatorPerCall ==
    (phase = "ready" /\ last.op \in {"native", "json"})
        => /\ last.exc = OnFreshAccumulator.exc
           /\ self_errors = OnFreshAccumulator.errors

-----------------------------------------------------------------------------
(* C6: json output *)

\* the item schemas of a list schema: a list of schemas, or one schema on its own
ItemSchemas(schema) ==
    IF Get(schema, "items").t = "dict" THEN <<Get(schema, "items")>>
    ELSE Get(schema, "items").c

\* value went through the json() of every node of the schema: no date is left
\* where the schema says date
RECURSIVE JsonApplied(_, _)
JsonApplied(schema, value) ==
    CASE TypeOf(schema) = "date" -> value.t # "date"
      [] DeclaresItems(schema, "dict") /\ Get(schema, "items").t = "dict"
            /\ value.t = "dict" ->
            \A i \in Fields(schema) :
                Has(value, Pairs(Get(schema, "items"))[i][1]) =>
                    JsonApplied(Pairs(Get(schema, "items"))[i][2],
                                Get(value, Pairs(Get(schema, "items"))[i][1]))
      [] DeclaresItems(schema, "list") /\ Get(schema, "items").t \in {"list", "dict"}
            /\ Len(ItemSchemas(schema)) > 0 /\ value.t = "list" ->
            \A i \in 1..Len(value.c) :
                JsonApplied(ItemSchemas(schema)[((i - 1) % Len(ItemSchemas(schema))) + 1],
                            value.c[i])
      [] OTHER -> TRUE

\* C6: in json output every node of the returned value went through the json()
\* of its own type, the root, every list element and every dict field alike: a
\* date inside a dict or a list is returned as its formatted string.
C6_JsonTransformsEveryNode ==
    (last.op = "process" /\ last.output = "json" /\ last.exc = "")
        => JsonApplied(last.schema, last.val)

-----------------------------------------------------------------------------
(* C7: dict schemas without items *)

\* C7: processing a dict against a dict schema that declares no items succeeds
\* for every dict: the returned dict has the keys of the input with their values
\* unchanged, no error is recorded and no exception is raised.
C7_DictWithoutItemsPassesThrough ==
    (phase = "ready" /\ ValidDoc(doc) /\ TypeOf(doc) = "dict" /\ ~Has(doc, "items")
        /\ ~Has(doc, "default") /\ self_data.t = "dict" /\ last.op = "native")
        => (last.exc = "" /\ last.val = self_data /\ last.recorded = <<>>)

-----------------------------------------------------------------------------
(* C8: list traversal *)

\* element i of a list (from 1), processed on its own against item schema
\* number (i - 1) mod n
Element(schema, data, i) ==
    Alone(ItemSchemas(schema)[((i - 1) % Len(ItemSchemas(schema))) + 1], data.c[i])

\* a list schema with one item schema or a list of them meets a list whose
\* elements, each on its own, convert without error
ListCase(c) ==
    /\ WithDefaults(c)
    /\ DeclaresItems(c.schema, "list")
    /\ Get(c.schema, "items").t \in {"list", "dict"}
    /\ Len(ItemSchemas(c.schema)) > 0
    /\ c.data.t = "list"
    /\ \A i \in 1..Len(c.data.c) : Passed(Element(c.schema, c.data, i))

\* C8: list traversal returns a list as long as the input in which element i is
\* input element i processed against item schema number (i mod n) of the n
\* declared, one item schema given on its own counting as n = 1.
C8_ListCyclesItemSchemas ==
    ListCase(last) =>
        /\ last.exc = ""
        /\ last.val.t = "list"
        /\ Len(last.val.c) = Len(last.data.c)
        /\ \A i \in 1..Len(last.data.c) :
              last.val.c[i] = Element(last.schema, last.data, i).val

-----------------------------------------------------------------------------
(* C9: schema self-validation *)

\* C9: construction rejects every invalid schema document: an instance exists
\* only if the type of its document is registered and every option key of the
\* document is recognised, and the validated schema keeps every option key of
\* the document.
C9_InvalidSchemaRejected ==
    phase = "ready" =>
        /\ ValidDoc(doc)
        /\ Keys(doc) \subseteq Keys(self_schema)

-----------------------------------------------------------------------------
(* C10: native() on its own result *)

\* C10: when native() with its defaults returned v and recorded no error, then
\* native() of the same schema on v returns v and records no error.
C10_NativeIdempotent ==
    (fed /\ last.op = "native" /\ WithDefaults(last))
        => (last.exc = "" /\ last.recorded = <<>> /\ last.val = self_data)

\* the result 42 of converting "42" was given back and came out as 42
C10_ConvertedValueFedBack ==
    /\ fed /\ last.op = "native" /\ WithDefaults(last)
    /\ TypeOf(doc) = "integer"
    /\ self_data = PyInt(42)
    /\ last.exc = "" /\ last.recorded = <<>> /\ last.val = PyInt(42)

====
